---- MODULE Spec2Model ----
(***************************************************************************)
(* A model of gotools_debug.py: the session manager GotoolsDebugCommand    *)
(* (launch, attach, stop, stop_active_session over the per-window          *)
(* registry "gotools.debugger.sessions" and the class attribute            *)
(* ActiveSession), the DebuggingSession operations, and the JSONClient     *)
(* transport they are built on.                                            *)
(*                                                                         *)
(* Spec     the session manager and the debugger child processes.          *)
(* SpecRpc  one DebuggingSession talking to one debugger over JSONClient.  *)
(***************************************************************************)
EXTENDS Integers, Sequences, FiniteSets, TLC

VARIABLES
  sessions,       \* window -> that window's "gotools.debugger.sessions" mapping
  ActiveSession,  \* GotoolsDebugCommand.ActiveSession
  procs,          \* pid -> state of the spawned debugger process
  spawned,        \* session key -> pid of the process launch spawned for it
  kills,          \* pids os.kill has been called on
  pc,             \* where the running stop handler is, or idle
  lastOp,         \* the last manager command and how it ended
  session,        \* the DebuggingSession object of SpecRpc
  sock,           \* the socket of its JSONClient: state and unread inbound bytes
  debugger,       \* the debugger process at the other end of the socket: its
                  \* breakpoints, the connections it accepted, the messages it wrote
  lastRpc,        \* the last DebuggingSession operation and the calls it made
  seen            \* what the calls so far have shown: the messages consumed under a
                  \* mismatched id, and the kinds of error raised with their causes

mgrVars == <<sessions, ActiveSession, procs, spawned, kills, pc, lastOp>>
rpcVars == <<session, sock, debugger, lastRpc, seen>>
vars == <<sessions, ActiveSession, procs, spawned, kills, pc, lastOp,
          session, sock, debugger, lastRpc, seen>>

(***************************************************************************)
(* Bounds of the model.                                                    *)
(***************************************************************************)
\* launches that reach the spawn (each takes a fresh uuid key and a fresh pid)
MaxLaunches == 2
\* calls one JSONClient makes
MaxCalls == 6
\* responses the debugger gets wrong
MaxFaults == 1
\* breakpoints the debugger holds
MaxBps == 2
\* bytes of the JSON text of a short response, and of a long one
ShortLen == 64
LongLen == 6000

\* socket.recv(4096)
BufSize == 4096

None == [kind |-> "None"]
\* what an operation that returned normally raised
NoException == "no exception"

Windows == {"w1", "w2"}
Programs == {"debug.test", "absent.test"}
\* the files that exist: what os.path.isfile answers
Files == {"debug.test"}
Ports == {"portA", "portB"}
Keys == {<<"key", n>> : n \in 1..MaxLaunches}
Pids == 1..MaxLaunches

isfile(program) == program \in Files

Remove(f, k) == [x \in DOMAIN f \ {k} |-> f[x]]
Put(f, k, v) == [x \in DOMAIN f \cup {k} |-> IF x = k THEN v ELSE f[x]]
Empty == [x \in {} |-> None]

(***************************************************************************)
(* DebuggingSession.__init__: copies pid, host, port, addr of the record;  *)
(* no transport yet.                                                       *)
(***************************************************************************)
DebuggingSession(session_key, rec) ==
  [kind |-> "DebuggingSession", rpc |-> None, session_key |-> session_key,
   pid |-> rec.pid, host |-> rec.host, port |-> rec.port, addr |-> rec.addr]

\* the record launch writes into the registry
SessionRecord(program, pid, port, desc) ==
  [program |-> program, pid |-> pid, host |-> "localhost", port |-> port,
   addr |-> <<"localhost", port>>, desc |-> desc]

Op(op, w, key, program, found, raised, log) ==
  [op |-> op, w |-> w, key |-> key, program |-> program, found |-> found,
   raised |-> raised, log |-> log]

\* the fields of lastOp that a command does not have
NoWindow == "no window"
NoKey == <<"key", 0>>
NoProgram == "no program"

Idle == [at |-> "idle"]

(***************************************************************************)
(* attach(session_key): the pointer it leaves, given the registry it reads.*)
(***************************************************************************)
\* faulty variant: an attach that finds no record clears the pointer
attachPointer_clears(regs, w, session_key, active) ==
  IF session_key \notin DOMAIN regs[w]
    THEN None
    ELSE DebuggingSession(session_key, regs[w][session_key])

attachPointer(regs, w, session_key, active) ==
  IF session_key \notin DOMAIN regs[w]
    THEN active
    ELSE DebuggingSession(session_key, regs[w][session_key])

attach(w, session_key) ==
  /\ pc = Idle
  /\ ActiveSession' = attachPointer(sessions, w, session_key, ActiveSession)
  /\ lastOp' = Op("attach", w, session_key, NoProgram, session_key \in DOMAIN sessions[w], NoException,
                  IF session_key \in DOMAIN sessions[w]
                    THEN <<"debugger attached to session">>
                    ELSE <<"no session found">>)
  /\ UNCHANGED <<sessions, procs, spawned, kills, pc>>
  /\ UNCHANGED rpcVars

(***************************************************************************)
(* launch(program, key, desc).  The key is a uuid, whether the caller      *)
(* (debug_test_at_cursor) made it or launch did: a fresh one each time.    *)
(* ToolRunner.run_nonblock either returns the child or raises.             *)
(***************************************************************************)
\* the spawn, the registry write and the attach of a launch
launchEffects(w, program, port, desc) ==
  LET pid == Cardinality(DOMAIN procs) + 1
      key == <<"key", pid>>
      regs == [sessions EXCEPT ![w] = Put(@, key, SessionRecord(program, pid, port, desc))]
  IN /\ procs' = Put(procs, pid, "running")
     /\ spawned' = Put(spawned, key, pid)
     /\ sessions' = regs
     /\ ActiveSession' = attachPointer(regs, w, key, ActiveSession)
     /\ lastOp' = Op("launch", w, key, program, TRUE, NoException,
                     <<"created new debugger session", "debugger attached to session">>)

\* faulty variant: the program is launched without the os.path.isfile test
launchMissing_unchecked(w, program) ==
  /\ pc = Idle
  /\ ~isfile(program)
  /\ Cardinality(DOMAIN procs) < MaxLaunches
  /\ launchEffects(w, program, "portA", "Default")
  /\ UNCHANGED <<kills, pc>>
  /\ UNCHANGED rpcVars

\* faulty variant: the missing program is reported by raising
launchMissing_raises(w, program) ==
  /\ pc = Idle
  /\ ~isfile(program)
  /\ lastOp' = Op("launch", w, NoKey, program, FALSE, "InvalidProgram", <<>>)
  /\ UNCHANGED <<sessions, ActiveSession, procs, spawned, kills, pc>>
  /\ UNCHANGED rpcVars

launchMissing(w, program) ==
  /\ pc = Idle
  /\ ~isfile(program)
  /\ lastOp' = Op("launch", w, NoKey, program, FALSE, NoException,
                  <<"build completed but program doesn't exist">>)
  /\ UNCHANGED <<sessions, ActiveSession, procs, spawned, kills, pc>>
  /\ UNCHANGED rpcVars

launchSpawnFails(w, program) ==
  /\ pc = Idle
  /\ isfile(program)
  /\ lastOp' = Op("launch", w, NoKey, program, FALSE, "OSError", <<>>)
  /\ UNCHANGED <<sessions, ActiveSession, procs, spawned, kills, pc>>
  /\ UNCHANGED rpcVars

launchSpawned(w, program, port, desc) ==
  /\ pc = Idle
  /\ isfile(program)
  /\ Cardinality(DOMAIN procs) < MaxLaunches
  /\ launchEffects(w, program, port, desc)
  /\ UNCHANGED <<kills, pc>>
  /\ UNCHANGED rpcVars

launch(w, program, port, desc) ==
  \/ launchMissing(w, program)
  \/ launchSpawnFails(w, program)
  \/ launchSpawned(w, program, port, desc)

(***************************************************************************)
(* stop(session_key), in the two steps its code takes: the lookup and the  *)
(* removal from the registry, then os.kill and os.waitpid inside the try.  *)
(* caller is "stop" or "stop_active_session".                              *)
(***************************************************************************)
\* faulty variant: the popped mapping is never written back with settings().set
stopLookup_noSet(w, session_key, caller) ==
  IF session_key \notin DOMAIN sessions[w]
    THEN /\ lastOp' = Op(caller, w, session_key, NoProgram, FALSE, NoException, <<"no session found">>)
         /\ ActiveSession' = IF caller = "stop_active_session" THEN None ELSE ActiveSession
         /\ UNCHANGED <<sessions, procs, spawned, kills, pc>>
    ELSE /\ pc' = [at |-> "kill", w |-> w, key |-> session_key,
                   pid |-> sessions[w][session_key].pid, caller |-> caller]
         /\ lastOp' = Op(caller, w, session_key, NoProgram, TRUE, NoException, <<"stopping session">>)
         /\ UNCHANGED <<sessions, ActiveSession, procs, spawned, kills>>

\* faulty variant: the record is read without the membership test
stopLookup_noCheck(w, session_key, caller) ==
  IF session_key \notin DOMAIN sessions[w]
    THEN /\ lastOp' = Op(caller, w, session_key, NoProgram, FALSE, "KeyError", <<>>)
         /\ UNCHANGED <<sessions, ActiveSession, procs, spawned, kills, pc>>
    ELSE /\ sessions' = [sessions EXCEPT ![w] = Remove(@, session_key)]
         /\ pc' = [at |-> "kill", w |-> w, key |-> session_key,
                   pid |-> sessions[w][session_key].pid, caller |-> caller]
         /\ lastOp' = Op(caller, w, session_key, NoProgram, TRUE, NoException, <<"stopping session">>)
         /\ UNCHANGED <<ActiveSession, procs, spawned, kills>>

stopLookup(w, session_key, caller) ==
  IF session_key \notin DOMAIN sessions[w]
    THEN /\ lastOp' = Op(caller, w, session_key, NoProgram, FALSE, NoException, <<"no session found">>)
         /\ ActiveSession' = IF caller = "stop_active_session" THEN None ELSE ActiveSession
         /\ UNCHANGED <<sessions, procs, spawned, kills, pc>>
    ELSE /\ sessions' = [sessions EXCEPT ![w] = Remove(@, session_key)]
         /\ pc' = [at |-> "kill", w |-> w, key |-> session_key,
                   pid |-> sessions[w][session_key].pid, caller |-> caller]
         /\ lastOp' = Op(caller, w, session_key, NoProgram, TRUE, NoException, <<"stopping session">>)
         /\ UNCHANGED <<ActiveSession, procs, spawned, kills>>

stop(w, session_key) ==
  /\ pc = Idle
  /\ stopLookup(w, session_key, "stop")
  /\ UNCHANGED rpcVars

\* os.kill(pid, SIGKILL); os.waitpid(pid, os.WNOHANG): a pid that is gone raises
killRaises(pid) == procs[pid] \in {"gone", "killed"}

\* faulty variant: os.kill and os.waitpid outside any try, so their error leaves stop
stopKill_noTry ==
  /\ pc.at = "kill"
  /\ kills' = kills \cup {pc.pid}
  /\ procs' = IF killRaises(pc.pid) THEN procs ELSE [procs EXCEPT ![pc.pid] = "killed"]
  /\ lastOp' = Op(pc.caller, pc.w, pc.key, NoProgram, TRUE,
                  IF killRaises(pc.pid) THEN "OSError" ELSE NoException,
                  IF killRaises(pc.pid)
                    THEN <<"stopping session">>
                    ELSE <<"stopping session", "killed pid", "deleted session">>)
  /\ ActiveSession' = IF pc.caller = "stop_active_session" /\ ~killRaises(pc.pid)
                        THEN None ELSE ActiveSession
  /\ pc' = Idle
  /\ UNCHANGED <<sessions, spawned>>
  /\ UNCHANGED rpcVars

stopKill ==
  /\ pc.at = "kill"
  /\ kills' = kills \cup {pc.pid}
  /\ procs' = IF killRaises(pc.pid) THEN procs ELSE [procs EXCEPT ![pc.pid] = "killed"]
  /\ lastOp' = Op(pc.caller, pc.w, pc.key, NoProgram, TRUE, NoException,
                  IF killRaises(pc.pid)
                    THEN <<"stopping session", "warning: couldn't kill pid", "deleted session">>
                    ELSE <<"stopping session", "killed pid", "deleted session">>)
  /\ ActiveSession' = IF pc.caller = "stop_active_session" THEN None ELSE ActiveSession
  /\ pc' = Idle
  /\ UNCHANGED <<sessions, spawned>>
  /\ UNCHANGED rpcVars

stop_active_session(w) ==
  /\ pc = Idle
  /\ IF ActiveSession = None
       THEN /\ lastOp' = Op("stop_active_session", w, NoKey, NoProgram, FALSE, NoException,
                            <<"no debugging session is active">>)
            /\ UNCHANGED <<sessions, ActiveSession, procs, spawned, kills, pc>>
       ELSE stopLookup(w, ActiveSession.session_key, "stop_active_session")
  /\ UNCHANGED rpcVars

(***************************************************************************)
(* The debugger child runs on its own: it may exit, and an exited child    *)
(* may be reaped, before any stop.                                         *)
(***************************************************************************)
ProcExit(pid) ==
  /\ pid \in DOMAIN procs
  /\ procs[pid] = "running"
  /\ procs' = [procs EXCEPT ![pid] = "exited"]
  /\ lastOp' = Op("exit", NoWindow, NoKey, NoProgram, FALSE, NoException, <<>>)
  /\ UNCHANGED <<sessions, ActiveSession, spawned, kills, pc>>
  /\ UNCHANGED rpcVars

ProcReaped(pid) ==
  /\ pid \in DOMAIN procs
  /\ procs[pid] = "exited"
  /\ procs' = [procs EXCEPT ![pid] = "gone"]
  /\ lastOp' = Op("reaped", NoWindow, NoKey, NoProgram, FALSE, NoException, <<>>)
  /\ UNCHANGED <<sessions, ActiveSession, spawned, kills, pc>>
  /\ UNCHANGED rpcVars

MgrInit ==
  /\ sessions = [w \in Windows |-> Empty]
  /\ ActiveSession = None
  /\ procs = Empty
  /\ spawned = Empty
  /\ kills = {}
  /\ pc = Idle
  /\ lastOp = Op("none", NoWindow, NoKey, NoProgram, FALSE, NoException, <<>>)

(***************************************************************************)
(* JSON values, as json.loads returns them and json.dumps takes them.      *)
(***************************************************************************)
JNull == [t |-> "null"]
JInt(n) == [t |-> "int", n |-> n]
JStr(s) == [t |-> "str", s |-> s]
JList(items) == [t |-> "list", items |-> items]
Breakpoint(id, file, line) == [t |-> "breakpoint", id |-> id, file |-> file, line |-> line]
DebuggerState(what) == [t |-> "state", what |-> what]
Response(id, result, error) == [t |-> "response", id |-> id, result |-> result, error |-> error]
\* bytes that are no JSON text
Garbage == [t |-> "garbage"]

SourceFiles == {"a.go"}
Lines == {10, 20}

(***************************************************************************)
(* Bytes on the socket.  A message is a JSON text of len bytes; a segment  *)
(* is the bytes lo..hi-1 of a message; a byte string is a sequence of      *)
(* segments.  sn numbers the messages the debugger wrote.                  *)
(***************************************************************************)
Message(sn, len, body) == [sn |-> sn, len |-> len, body |-> body]
Whole(msg) == [msg |-> msg, lo |-> 0, hi |-> msg.len]

RECURSIVE NBytes(_)
NBytes(bytes) ==
  IF bytes = <<>> THEN 0 ELSE (Head(bytes).hi - Head(bytes).lo) + NBytes(Tail(bytes))

\* the first k bytes of a byte string, and what is left after them
RECURSIVE Take(_, _)
Take(bytes, k) ==
  IF k = 0 \/ bytes = <<>> THEN <<>>
  ELSE LET s == Head(bytes)
           n == s.hi - s.lo
       IN IF n <= k THEN <<s>> \o Take(Tail(bytes), k - n)
                    ELSE <<[s EXCEPT !.hi = s.lo + k]>>

RECURSIVE Drop(_, _)
Drop(bytes, k) ==
  IF k = 0 \/ bytes = <<>> THEN bytes
  ELSE LET s == Head(bytes)
           n == s.hi - s.lo
       IN IF n <= k THEN Drop(Tail(bytes), k - n)
                    ELSE <<[s EXCEPT !.lo = s.lo + k]>> \o Tail(bytes)

Min(a, b) == IF a < b THEN a ELSE b

(***************************************************************************)
(* json.loads(bytes.decode()): the value, when the bytes are the whole     *)
(* text of one JSON value and nothing else; ValueError otherwise.          *)
(***************************************************************************)
Decodes(bytes) ==
  /\ Len(bytes) = 1
  /\ bytes[1].lo = 0
  /\ bytes[1].hi = bytes[1].msg.len
  /\ bytes[1].msg.body # Garbage

loads(bytes) == IF Decodes(bytes) THEN bytes[1].msg.body ELSE None

(***************************************************************************)
(* socket.recv(4096) returns what has arrived, at most 4096 bytes and at   *)
(* least one: all of it, or up to the end of the first message.            *)
(***************************************************************************)
RecvSizes(inbuf) ==
  LET first == Head(inbuf).hi - Head(inbuf).lo
      most == Min(BufSize, NBytes(inbuf))
  IN {k \in {most, first} : 1 <= k /\ k <= most}

(***************************************************************************)
(* Exceptions.                                                             *)
(***************************************************************************)
Raise(type, args) == [t |-> "exception", type |-> type, args |-> args]

\* "expected id=%s, received id=%s: %s" % (request id, response id, response error)
MismatchMessage(reqId, respId, respError) ==
  [t |-> "str", format |-> "expected id=%s, received id=%s: %s",
   a |-> reqId, b |-> respId, c |-> respError]

(***************************************************************************)
(* The debugger serving one request.  It answers as the request asks, or   *)
(* rejects it with an error, or answers under another id, or writes        *)
(* something that is no JSON.                                              *)
(***************************************************************************)
ErrorPayloads == {JStr("could not find breakpoint"), JInt(0)}

\* what the debugger does for the request, and the result it reports
Served(dbg, req) ==
  IF req.method = "RPCServer.CreateBreakpoint" THEN
    IF Len(dbg.bps) < MaxBps
      THEN LET bp == Breakpoint(dbg.nextId, req.params[1].file, req.params[1].line)
           IN {[dbg |-> [dbg EXCEPT !.bps = Append(@, bp), !.nextId = @ + 1], result |-> bp]}
      ELSE {}
  ELSE IF req.method = "RPCServer.ListBreakpoints" THEN
    {[dbg |-> dbg, result |-> JList(dbg.bps)]}
  ELSE IF req.method = "RPCServer.ClearBreakpoint" THEN
    {[dbg |-> [dbg EXCEPT !.bps = SelectSeq(@, LAMBDA x : x # bp)], result |-> bp] :
       bp \in {dbg.bps[i] : i \in {j \in DOMAIN dbg.bps : dbg.bps[j].id = req.params[1].n}}}
  ELSE
    {[dbg |-> dbg, result |-> DebuggerState(what)] : what \in {"breakpoint", "exited"}}

Write(dbg, len, body) ==
  [dbg |-> [dbg EXCEPT !.sent = @ + 1], conn |-> "open",
   wrote |-> <<Whole(Message(dbg.sent + 1, len, body))>>]

\* the bytes the JSON text of a response may take: a list of many breakpoints
\* may not fit in one read
ResponseLens(result) ==
  IF result.t = "list" /\ Len(result.items) >= MaxBps THEN {ShortLen, LongLen} ELSE {ShortLen}

\* a response the debugger writes as it should
Honest(dbg, req) ==
  UNION {{Write(s.dbg, len, Response(JInt(req.id), s.result, JNull)) :
            len \in ResponseLens(s.result)} :
         s \in Served(dbg, req)}

\* the other things it may write: an error, an answer under another id, no JSON
Faulty(dbg, req) ==
  LET d == [dbg EXCEPT !.faults = @ + 1]
  IN  {Write(d, ShortLen, Response(JInt(req.id), JNull, e)) : e \in ErrorPayloads}
      \cup {Write([s.dbg EXCEPT !.faults = @ + 1], ShortLen,
                  Response(JInt(req.id + 1), s.result, JNull)) : s \in Served(dbg, req)}
      \cup {Write(d, ShortLen, Garbage)}

Reactions(dbg, req) ==
  Honest(dbg, req) \cup (IF dbg.faults < MaxFaults THEN Faulty(dbg, req) ELSE {})

(***************************************************************************)
(* JSONClient.  A world is the DebuggingSession, its socket and the        *)
(* debugger; the operators below give every way an operation can go from a *)
(* world: the world it leaves and what it returned or raised.              *)
(***************************************************************************)
JSONClient == [t |-> "JSONClient", id_counter |-> 0]

\* one call of JSONClient.call, as lastRpc keeps it
CallRecord(req, bytes, resp, exc, value, cause) ==
  [request |-> req, bytes |-> bytes, response |-> resp, exc |-> exc, value |-> value,
   cause |-> cause]

\* faulty variant: the id of the response is never compared with the id of the request
CallFinish_noIdCheck(w, req, bytes) ==
  LET response == loads(bytes)
      Finish(resp, exc, value, cause) ==
        [w |-> w, call |-> CallRecord(req, bytes, resp, exc, value, cause)]
  IN IF response = None
       THEN Finish(None, Raise("ValueError", JNull), None,
                   IF bytes = <<>> THEN "connection" ELSE "protocol")
     ELSE IF response.t # "response"
       THEN Finish(response, Raise("AttributeError", JNull), None, "protocol")
     ELSE IF response.error # JNull
       THEN Finish(response, Raise("Exception", response.error), None, "server")
     ELSE Finish(response, None, response.result, "none")

\* what Python takes for false
Falsy(value) == value \in {JNull, JInt(0), JStr(""), JList(<<>>)}

\* faulty variant: the error is tested for truth, not against None
CallFinish_truthyError(w, req, bytes) ==
  LET response == loads(bytes)
      Finish(resp, exc, value, cause) ==
        [w |-> w, call |-> CallRecord(req, bytes, resp, exc, value, cause)]
  IN IF response = None
       THEN Finish(None, Raise("ValueError", JNull), None,
                   IF bytes = <<>> THEN "connection" ELSE "protocol")
     ELSE IF response.t # "response"
       THEN Finish(response, Raise("AttributeError", JNull), None, "protocol")
     ELSE IF response.id # JInt(req.id)
       THEN Finish(response,
                   Raise("Exception", MismatchMessage(JInt(req.id), response.id, response.error)),
                   None, "protocol")
     ELSE IF ~Falsy(response.error)
       THEN Finish(response, Raise("Exception", response.error), None, "server")
     ELSE Finish(response, None, response.result, "none")

\* JSONClient.call from json.loads on: bytes are what recv returned
CallFinish(w, req, bytes) ==
  LET response == loads(bytes)
      Finish(resp, exc, value, cause) ==
        [w |-> w, call |-> CallRecord(req, bytes, resp, exc, value, cause)]
  IN IF response = None
       THEN Finish(None, Raise("ValueError", JNull), None,
                 IF bytes = <<>> THEN "connection" ELSE "protocol")
     ELSE IF response.t # "response"
       THEN Finish(response, Raise("AttributeError", JNull), None, "protocol")
     ELSE IF response.id # JInt(req.id)
       THEN Finish(response,
                 Raise("Exception", MismatchMessage(JInt(req.id), response.id, response.error)),
                 None, "protocol")
     ELSE IF response.error # JNull
       THEN Finish(response, Raise("Exception", response.error), None, "server")
     ELSE Finish(response, None, response.result, "none")

\* socket.recv(4096) and the rest of the call
CallRecv(w, req) ==
  IF w.sock.inbuf = <<>>
    THEN IF w.sock.conn = "reset"
           THEN {[w |-> w, call |-> CallRecord(req, <<>>, None, Raise("OSError", JNull), None,
                                               "connection")]}
           ELSE {CallFinish(w, req, <<>>)}
    ELSE {CallFinish([w EXCEPT !.sock.inbuf = Drop(@, k)], req, Take(w.sock.inbuf, k)) :
            k \in RecvSizes(w.sock.inbuf)}

\* socket.sendall(json.dumps(request).encode()) and what the debugger does with it
CallSend(w, req) ==
  LET broken == [w |-> w, call |-> CallRecord(req, <<>>, None, Raise("OSError", JNull), None,
                                              "connection")]
  IN IF w.sock.conn = "reset" THEN {[sent |-> FALSE, out |-> broken]}
     ELSE IF w.sock.conn = "closed"
       THEN {[sent |-> FALSE, out |-> broken], [sent |-> TRUE, w |-> w]}
     ELSE {[sent |-> TRUE,
            w |-> [w EXCEPT !.debugger = r.dbg, !.sock.inbuf = @ \o r.wrote]] :
             r \in Reactions(w.debugger, req)}

call(w, name, params) ==
  LET req == [id |-> w.session.rpc.id_counter, params |-> params, method |-> name]
      w1 == [w EXCEPT !.session.rpc.id_counter = @ + 1]
  IN UNION {IF s.sent THEN CallRecv(s.w, req) ELSE {s.out} : s \in CallSend(w1, req)}

(***************************************************************************)
(* DebuggingSession.                                                       *)
(***************************************************************************)
Done(w, calls, exc, value) == [w |-> w, calls |-> calls, exc |-> exc, value |-> value]

\* faulty variant: a new JSONClient at every access, the one the session has
\* is never returned
rpc_alwaysNew(w) ==
  IF w.debugger.up = "listening"
    THEN [ok |-> TRUE, w |-> [w EXCEPT !.session.rpc = JSONClient,
                                       !.sock = [conn |-> "open", inbuf |-> <<>>],
                                       !.debugger.accepted = @ + 1]]
    ELSE [ok |-> FALSE, w |-> w]

\* faulty variant: the JSONClient is kept although its connect was refused
rpc_keepsRefused(w) ==
  IF w.session.rpc # None THEN [ok |-> TRUE, w |-> w]
  ELSE IF w.debugger.up = "listening"
    THEN [ok |-> TRUE, w |-> [w EXCEPT !.session.rpc = JSONClient,
                                       !.sock = [conn |-> "open", inbuf |-> <<>>],
                                       !.debugger.accepted = @ + 1]]
    ELSE [ok |-> FALSE, w |-> [w EXCEPT !.session.rpc = JSONClient,
                                        !.sock = [conn |-> "reset", inbuf |-> <<>>]]]

\* the property rpc: the transport the session has, or a new JSONClient, whose
\* socket.create_connection is refused unless the debugger listens
rpc(w) ==
  IF w.session.rpc # None THEN [ok |-> TRUE, w |-> w]
  ELSE IF w.debugger.up = "listening"
    THEN [ok |-> TRUE, w |-> [w EXCEPT !.session.rpc = JSONClient,
                                       !.sock = [conn |-> "open", inbuf |-> <<>>],
                                       !.debugger.accepted = @ + 1]]
    ELSE [ok |-> FALSE, w |-> w]

\* self.rpc.call(name, *params)
rpcCall(w, name, params) ==
  LET c == rpc(w)
  IN IF ~c.ok THEN {Done(c.w, <<>>, Raise("OSError", JNull), None)}
     ELSE {Done(o.w, <<o.call>>, o.call.exc, o.call.value) : o \in call(c.w, name, params)}

\* statements in sequence: p ran from where o returned
After(o, p) == Done(p.w, o.calls \o p.calls, p.exc, p.value)

\* a method that ends without a return statement returns None
ReturnsNone(outcomes) == {IF o.exc # None THEN o ELSE [o EXCEPT !.value = None] : o \in outcomes}

get_breakpointsFrom(w) == rpcCall(w, "RPCServer.ListBreakpoints", <<>>)

\* faulty variant: the row of the cursor is sent as it is counted from 0
add_breakpointFrom_zeroBased(w, filename, line) ==
  ReturnsNone(UNION {
    IF o.exc # None THEN {o}
    ELSE {After(o, p) : p \in get_breakpointsFrom(o.w)} :
    o \in rpcCall(w, "RPCServer.CreateBreakpoint",
                  <<[t |-> "location", file |-> filename, line |-> line - 1]>>)})

add_breakpointFrom(w, filename, line) ==
  ReturnsNone(UNION {
    IF o.exc # None THEN {o}
    ELSE {After(o, p) : p \in get_breakpointsFrom(o.w)} :
    o \in rpcCall(w, "RPCServer.CreateBreakpoint",
                  <<[t |-> "location", file |-> filename, line |-> line]>>)})

\* faulty variant: the loop has no break, so it ends on the last entry at filename:line
FirstAt_last(bps, filename, line) ==
  LET at == {i \in DOMAIN bps : bps[i].file = filename /\ bps[i].line = line}
  IN IF at = {} THEN None ELSE bps[CHOOSE i \in at : \A j \in at : i >= j]

\* the loop of clear_breakpoint: the first entry at filename:line, or None
FirstAt(bps, filename, line) ==
  LET at == {i \in DOMAIN bps : bps[i].file = filename /\ bps[i].line = line}
  IN IF at = {} THEN None ELSE bps[CHOOSE i \in at : \A j \in at : i <= j]

\* self.rpc.call("RPCServer.ClearBreakpoint", bp["id"]) and the list logged after it
clearAndList(w, bp) ==
  UNION {IF o.exc # None THEN {o}
         ELSE {After(o, p) : p \in get_breakpointsFrom(o.w)} :
         o \in rpcCall(w, "RPCServer.ClearBreakpoint", <<JInt(bp.id)>>)}

\* faulty variant: no return after "no breakpoint found": the call goes out for bp, the
\* loop variable, which is the last entry of the list
clear_breakpointFrom_noReturn(w, filename, line) ==
  ReturnsNone(UNION {
    IF o.exc # None THEN {o}
    ELSE IF o.value.t # "list" THEN {After(o, Done(o.w, <<>>, Raise("TypeError", JNull), None))}
    ELSE LET found == FirstAt(o.value.items, filename, line)
             bp == IF found # None THEN found
                   ELSE IF o.value.items = <<>> THEN None
                   ELSE o.value.items[Len(o.value.items)]
         IN IF bp = None THEN {After(o, Done(o.w, <<>>, Raise("NameError", JNull), None))}
            ELSE {After(o, p) : p \in clearAndList(o.w, bp)} :
    o \in get_breakpointsFrom(w)})

clear_breakpointFrom(w, filename, line) ==
  ReturnsNone(UNION {
    IF o.exc # None THEN {o}
    ELSE IF o.value.t # "list" THEN {After(o, Done(o.w, <<>>, Raise("TypeError", JNull), None))}
    ELSE LET found == FirstAt(o.value.items, filename, line)
         IN IF found = None THEN {o}
            ELSE {After(o, p) : p \in clearAndList(o.w, found)} :
    o \in get_breakpointsFrom(w)})

contFrom(w) ==
  ReturnsNone(rpcCall(w, "RPCServer.Command", <<[t |-> "command", name |-> "continue"]>>))

World == [session |-> session, sock |-> sock, debugger |-> debugger]

Args(filename, line) == [file |-> filename, line |-> line]
NoArgs == Args("", 0)

\* the call decoded a response and its id is not the id of the request
Mismatched(c) ==
  /\ c.response # None
  /\ c.response.t = "response"
  /\ c.response.id # JInt(c.request.id)

\* the number of the message a call decoded
Consumed(c) == c.bytes[1].msg.sn

\* why an operation raised: the cause of its failing call, or a refused connect
CauseOf(o) ==
  IF o.calls # <<>> /\ o.calls[Len(o.calls)].exc = o.exc THEN o.calls[Len(o.calls)].cause
  ELSE IF o.exc.type = "OSError" THEN "connection"
  ELSE "caller"

\* one operation on the session: it ends in one of its outcomes
Ends(op, args, outcomes) ==
  /\ \E o \in outcomes :
       /\ session' = o.w.session
       /\ sock' = o.w.sock
       /\ debugger' = o.w.debugger
       /\ lastRpc' = [op |-> op, args |-> args, calls |-> o.calls, exc |-> o.exc,
                      value |-> o.value]
       /\ seen' = [mismatched |-> seen.mismatched \cup
                                    {Consumed(o.calls[i]) :
                                       i \in {j \in DOMAIN o.calls : Mismatched(o.calls[j])}},
                   kinds |-> seen.kinds \cup
                               (IF o.exc = None \/ CauseOf(o) = "caller" THEN {}
                                ELSE {[cause |-> CauseOf(o), type |-> o.exc.type]})]
  /\ UNCHANGED mgrVars

\* the operation makes at most n calls, and the transport has them left
CallsLeft(n) ==
  (IF session.rpc = None THEN 0 ELSE session.rpc.id_counter) + n <= MaxCalls

add_breakpoint(filename, line) ==
  /\ CallsLeft(2)
  /\ Ends("add_breakpoint", Args(filename, line), add_breakpointFrom(World, filename, line))

get_breakpoints ==
  /\ CallsLeft(1)
  /\ Ends("get_breakpoints", NoArgs, get_breakpointsFrom(World))

clear_breakpoint(filename, line) ==
  /\ CallsLeft(3)
  /\ Ends("clear_breakpoint", Args(filename, line), clear_breakpointFrom(World, filename, line))

cont ==
  /\ CallsLeft(1)
  /\ Ends("cont", NoArgs, contFrom(World))

(***************************************************************************)
(* The debugger is started by launch, which does not wait for it to        *)
(* listen; it may die at any time, which closes its end of the connection. *)
(***************************************************************************)
DebuggerListens ==
  /\ debugger.up = "starting"
  /\ debugger' = [debugger EXCEPT !.up = "listening"]
  /\ UNCHANGED <<session, sock, lastRpc, seen>>
  /\ UNCHANGED mgrVars

DebuggerDies(how) ==
  /\ debugger.up # "dead"
  /\ debugger' = [debugger EXCEPT !.up = "dead"]
  /\ sock' = IF sock = None THEN sock
             ELSE [conn |-> how, inbuf |-> IF how = "reset" THEN <<>> ELSE sock.inbuf]
  /\ UNCHANGED <<session, lastRpc, seen>>
  /\ UNCHANGED mgrVars

\* a DebuggingSession as attach builds it, for a debugger that holds bps
RpcStart(bps) ==
  /\ session = DebuggingSession(<<"key", 1>>, SessionRecord("debug.test", 1, "portA", "Default"))
  /\ sock = None
  /\ debugger = [up |-> "starting", bps |-> bps, nextId |-> Len(bps) + 1, sent |-> 0,
                 faults |-> 0, accepted |-> 0]
  /\ lastRpc = [op |-> "none", args |-> NoArgs, calls |-> <<>>, exc |-> None, value |-> None]
  /\ seen = [mismatched |-> {}, kinds |-> {}]

\* the debugger of the session is new, or an earlier DebuggingSession of the
\* same registry record has left a breakpoint in it
RpcInit == \E bps \in {<<>>, <<Breakpoint(1, "a.go", 10)>>} : RpcStart(bps)

InitRpc == MgrInit /\ RpcInit

Init == MgrInit /\ RpcStart(<<>>)

Next ==
  \/ \E w \in Windows, program \in Programs, port \in Ports : launch(w, program, port, "Default")
  \/ \E w \in Windows, k \in Keys : attach(w, k)
  \/ \E w \in Windows, k \in Keys : stop(w, k)
  \/ \E w \in Windows : stop_active_session(w)
  \/ stopKill
  \/ \E pid \in Pids : ProcExit(pid)
  \/ \E pid \in Pids : ProcReaped(pid)

Spec == Init /\ [][Next]_vars

NextRpc ==
  \/ \E f \in SourceFiles, l \in Lines : add_breakpoint(f, l)
  \/ get_breakpoints
  \/ \E f \in SourceFiles, l \in Lines : clear_breakpoint(f, l)
  \/ cont
  \/ DebuggerListens
  \/ \E how \in {"closed", "reset"} : DebuggerDies(how)

SpecRpc == InitRpc /\ [][NextRpc]_vars

(***************************************************************************)
(* Properties of the session manager (under Spec).                         *)
(***************************************************************************)
HasRecord(k) == \E w \in Windows : k \in DOMAIN sessions[w]

\* C3: between commands, a session key has a record in a registry exactly when
\* launch spawned a process for it and no stop has torn that process down;
\* the record names that process.
RecordIffLiveProcess ==
  pc = Idle =>
    \A k \in Keys :
      /\ HasRecord(k) <=> (k \in DOMAIN spawned /\ spawned[k] \notin kills)
      /\ \A w \in Windows : k \in DOMAIN sessions[w] => sessions[w][k].pid = spawned[k]

\* a state with one session still recorded and another one stopped
RecordedAndStoppedSessions ==
  /\ pc = Idle
  /\ \E k1, k2 \in DOMAIN spawned :
       /\ HasRecord(k1) /\ spawned[k1] \notin kills
       /\ ~HasRecord(k2) /\ spawned[k2] \in kills

\* C4: stop of a key that is in the registry removes the record in the step
\* before os.kill is called; whatever os.kill and os.waitpid do, the record
\* stays removed and stop returns without raising.
StopRemovesBeforeKill ==
  [][/\ (pc = Idle /\ pc'.at = "kill") =>
          /\ pc'.key \in DOMAIN sessions[pc'.w]
          /\ pc'.key \notin DOMAIN sessions'[pc'.w]
          /\ kills' = kills
     /\ (kills' # kills) =>
          /\ pc.at = "kill"
          /\ kills' = kills \cup {pc.pid}
          /\ pc.key \notin DOMAIN sessions[pc.w]
          /\ pc.key \notin DOMAIN sessions'[pc.w]
          /\ lastOp'.raised = NoException
          /\ pc' = Idle]_vars

\* a stop has finished whose os.kill raised
StopFinishedAfterFailedKill ==
  /\ pc = Idle
  /\ lastOp.op = "stop"
  /\ lastOp.found
  /\ lastOp.log = <<"stopping session", "warning: couldn't kill pid", "deleted session">>
  /\ ~HasRecord(lastOp.key)

\* C5: stop of a key that is not in the registry returns without error,
\* leaves every registry as it was and calls os.kill on nothing.
StopUnknownChangesNothing ==
  [][(pc = Idle /\ lastOp'.op = "stop" /\ lastOp'.key \notin DOMAIN sessions[lastOp'.w]) =>
       /\ lastOp'.raised = NoException
       /\ sessions' = sessions
       /\ kills' = kills
       /\ procs' = procs
       /\ pc' = Idle]_vars

\* a stop of an unknown key has run while another session was recorded
StopUnknownRan ==
  /\ lastOp.op = "stop"
  /\ ~lastOp.found
  /\ \E k \in Keys : HasRecord(k)

\* C6: launch of a program that is no existing file spawns no process, writes
\* no registry entry and leaves the Active Session Pointer as it was.
LaunchMissingChangesNothing ==
  [][(pc = Idle /\ lastOp'.op = "launch" /\ ~isfile(lastOp'.program)) =>
       /\ procs' = procs
       /\ spawned' = spawned
       /\ sessions' = sessions
       /\ ActiveSession' = ActiveSession]_vars

\* a launch of a missing program has run while a session was active
LaunchMissingRanWhileActive ==
  /\ lastOp.op = "launch"
  /\ ~isfile(lastOp.program)
  /\ ActiveSession # None
  /\ HasRecord(ActiveSession.session_key)

PointerFollowsAttach ==
  [][/\ lastOp'.op = "attach" =>
          /\ sessions' = sessions
          /\ ActiveSession' =
               IF lastOp'.key \in DOMAIN sessions[lastOp'.w]
                 THEN [kind |-> "DebuggingSession", rpc |-> None,
                       session_key |-> lastOp'.key,
                       pid |-> sessions[lastOp'.w][lastOp'.key].pid,
                       host |-> sessions[lastOp'.w][lastOp'.key].host,
                       port |-> sessions[lastOp'.w][lastOp'.key].port,
                       addr |-> sessions[lastOp'.w][lastOp'.key].addr]
                 ELSE ActiveSession
     /\ (lastOp'.op = "launch" /\ lastOp'.found) =>
          /\ lastOp'.key \notin DOMAIN sessions[lastOp'.w]
          /\ lastOp'.key \in DOMAIN sessions'[lastOp'.w]
          /\ ActiveSession'.session_key = lastOp'.key
          /\ ActiveSession'.rpc = None
          /\ ActiveSession'.pid = sessions'[lastOp'.w][lastOp'.key].pid
          /\ ActiveSession'.port = sessions'[lastOp'.w][lastOp'.key].port
     /\ lastOp'.op \in {"stop", "stop_active_session"} =>
          ActiveSession' \in {ActiveSession, None}]_vars

\* an attach has moved the pointer from the session launched last to an earlier
\* one, and an attach of a key without record has then left it there
AttachMovedPointerAndMissed ==
  /\ lastOp.op = "attach"
  /\ ~lastOp.found
  /\ ActiveSession # None
  /\ ActiveSession.session_key = <<"key", 1>>
  /\ <<"key", 2>> \in DOMAIN spawned

\* C17 as stated: between commands, when the Active Session Pointer is set,
\* the session key it holds has a record in the registry.
ActiveSessionIsRecorded ==
  (pc = Idle /\ ActiveSession # None) => HasRecord(ActiveSession.session_key)

\* C18 as stated: when stop_active_session has run with the pointer set, in
\* whichever window, the pointer is empty, the session that was active has no
\* record in any registry and os.kill has been called on its pid.
StopActiveStopsTheActiveSession ==
  (pc = Idle /\ lastOp.op = "stop_active_session" /\ lastOp.key # NoKey) =>
    /\ ActiveSession = None
    /\ ~HasRecord(lastOp.key)
    /\ spawned[lastOp.key] \in kills

(***************************************************************************)
(* Properties of JSONClient.call and of the DebuggingSession operations    *)
(* (under SpecRpc).                                                        *)
(***************************************************************************)
Calls == {lastRpc.calls[i] : i \in DOMAIN lastRpc.calls}

\* the call decoded a response that carries the id of its request
Matched(c) ==
  /\ c.response # None
  /\ c.response.t = "response"
  /\ c.response.id = JInt(c.request.id)

\* C1: a call returns a result only when the response it decoded carries the
\* id of the request it sent, and then the result of that response; a response
\* with another id makes the call raise, and the message that carried it is
\* never the one a call returns from.
CallReturnsOnlyMatchingId ==
  \A c \in Calls :
    /\ c.exc = None =>
         /\ Matched(c)
         /\ c.value = c.response.result
         /\ Consumed(c) \notin seen.mismatched
    /\ Mismatched(c) => (c.exc # None /\ c.value = None)

\* a call has returned on a transport where an earlier response had come under
\* the id of a later request
ReturnedAfterMismatch ==
  /\ seen.mismatched # {}
  /\ \E c \in Calls : c.exc = None /\ Consumed(c) \notin seen.mismatched

\* C2 as stated: when only the first part of the response to a call arrives
\* in its read, the call still returns the result of that response and leaves
\* none of its bytes in the socket.
FragmentedResponseIsReturned ==
  \A c \in Calls :
    (/\ c.bytes # <<>>
     /\ c.bytes[1].lo = 0
     /\ c.bytes[1].hi < c.bytes[1].msg.len
     /\ c.bytes[1].msg.body = Response(JInt(c.request.id), c.bytes[1].msg.body.result, JNull))
    => /\ c.exc = None
       /\ c.value = c.bytes[1].msg.body.result
       /\ \A j \in DOMAIN sock.inbuf : sock.inbuf[j].msg.sn # c.bytes[1].msg.sn

\* C8: for a decoded response with the id of the request, a non-null error
\* makes the call raise an error carrying exactly that error, with no result;
\* a null error makes it return the result of the response.
ErrorFieldDecidesOutcome ==
  \A c \in Calls :
    Matched(c) =>
      IF c.response.error # JNull
        THEN c.exc = Raise("Exception", c.response.error) /\ c.value = None
        ELSE c.exc = None /\ c.value = c.response.result

\* a call has raised for a response whose error is 0
RaisedOnZeroError ==
  \E c \in Calls :
    /\ Matched(c)
    /\ c.response.error = JInt(0)
    /\ c.exc = Raise("Exception", JInt(0))

\* C9 as stated: a connection failure, a protocol failure and a server failure
\* are raised as different kinds of error, so the kind tells the cause.
ErrorKindTellsCause ==
  \A p, q \in seen.kinds : p.type = q.type => p.cause = q.cause

\* C10: clear_breakpoint(file, line), when the list ListBreakpoints returned
\* has no entry at file:line, returns without error and has made no
\* ClearBreakpoint call.
ClearWithoutMatchCallsNothing ==
  (/\ lastRpc.op = "clear_breakpoint"
   /\ lastRpc.calls # <<>>
   /\ lastRpc.calls[1].exc = None
   /\ lastRpc.calls[1].value.t = "list"
   /\ \A i \in DOMAIN lastRpc.calls[1].value.items :
        ~(/\ lastRpc.calls[1].value.items[i].file = lastRpc.args.file
          /\ lastRpc.calls[1].value.items[i].line = lastRpc.args.line))
  => /\ lastRpc.exc = None
     /\ \A c \in Calls : c.request.method # "RPCServer.ClearBreakpoint"

\* clear_breakpoint has returned after a list with entries, none at file:line
ClearedNothingFromFullList ==
  /\ lastRpc.op = "clear_breakpoint"
  /\ lastRpc.exc = None
  /\ Len(lastRpc.calls) = 1
  /\ lastRpc.calls[1].value.t = "list"
  /\ lastRpc.calls[1].value.items # <<>>
  /\ \A i \in DOMAIN lastRpc.calls[1].value.items :
       lastRpc.calls[1].value.items[i].line # lastRpc.args.line

\* the step is the named operation, which made calls and returned without error
Returned(op) ==
  /\ lastRpc'.op = op
  /\ lastRpc'.exc = None
  /\ session'.rpc # session.rpc

\* the debugger has answered every request as asked and nothing it wrote is unread
InStep ==
  /\ debugger.faults = 0
  /\ debugger'.faults = 0
  /\ (sock = None \/ sock.inbuf = <<>>)

\* C11: against a debugger that stores on CreateBreakpoint under a generated
\* id, lists what it stores and removes by id: from no breakpoints,
\* add_breakpoint(f, l) leaves exactly one breakpoint, at f:l, and that is the
\* list read after it; any list_breakpoints returns what the debugger stores;
\* clear_breakpoint(f, l) with that one breakpoint stored leaves none, and the
\* list read after it is empty.
AddListClear ==
  [][InStep =>
       /\ (Returned("add_breakpoint") /\ debugger.bps = <<>>) =>
            /\ debugger'.bps = <<Breakpoint(debugger.nextId, lastRpc'.args.file,
                                            lastRpc'.args.line)>>
            /\ lastRpc'.calls[2].value = JList(debugger'.bps)
       /\ Returned("get_breakpoints") =>
            /\ lastRpc'.value = JList(debugger.bps)
            /\ debugger'.bps = debugger.bps
       /\ (/\ Returned("clear_breakpoint")
           /\ Len(debugger.bps) = 1
           /\ debugger.bps[1].file = lastRpc'.args.file
           /\ debugger.bps[1].line = lastRpc'.args.line) =>
            /\ debugger'.bps = <<>>
            /\ lastRpc'.calls[3].value = JList(<<>>)]_vars

\* a breakpoint added at a.go:20 to a debugger that had none has been listed
\* and then cleared: six calls, all answered as asked
AddedListedCleared ==
  /\ lastRpc.op = "clear_breakpoint"
  /\ lastRpc.exc = None
  /\ lastRpc.args = Args("a.go", 20)
  /\ Len(lastRpc.calls) = 3
  /\ lastRpc.calls[1].value = JList(<<Breakpoint(1, "a.go", 20)>>)
  /\ lastRpc.calls[3].value = JList(<<>>)
  /\ debugger.bps = <<>>
  /\ debugger.faults = 0
  /\ debugger.sent = 6
  /\ session.rpc.id_counter = 6

\* C13 as stated: cont makes one call, of RPCServer.Command with the name
\* "continue", and returns to its caller the state the response reported.
ContReturnsState ==
  (lastRpc.op = "cont" /\ lastRpc.exc = None) =>
    /\ Len(lastRpc.calls) = 1
    /\ lastRpc.calls[1].request.method = "RPCServer.Command"
    /\ lastRpc.calls[1].request.params = <<[t |-> "command", name |-> "continue"]>>
    /\ lastRpc.value = lastRpc.calls[1].response.result

\* C14: the session is constructed without transport and without connection;
\* a first operation that finds the debugger listening opens the one
\* connection; from then on every operation keeps that transport, whose
\* requests go on numbering, and no other connection is ever opened.
OneLazyTransport ==
  [][/\ debugger.accepted <= 1
     /\ debugger'.accepted <= 1
     /\ (session.rpc = None) <=> (debugger.accepted = 0 /\ sock = None)
     /\ lastRpc.op = "none" => session.rpc = None
     /\ (lastRpc' # lastRpc /\ debugger.up = "listening") => session'.rpc # None
     /\ session.rpc # None =>
          /\ session'.rpc # None
          /\ session'.rpc.id_counter >= session.rpc.id_counter
          /\ debugger'.accepted = debugger.accepted]_vars

\* three operations have made their calls on the one connection
ThreeOperationsOneTransport ==
  /\ lastRpc.op = "cont"
  /\ lastRpc.exc = None
  /\ session.rpc # None
  /\ session.rpc.id_counter = 3
  /\ lastRpc.calls[1].request.id = 2
  /\ debugger.accepted = 1
  /\ debugger.sent = 3

\* the entries of a list at file:line, by their place in the list
MatchesIn(items, args) ==
  {i \in DOMAIN items : items[i].file = args.file /\ items[i].line = args.line}

\* C15: clear_breakpoint(file, line), when the list it read has entries at
\* file:line, makes exactly one ClearBreakpoint call, second of its calls, with
\* the id of the first such entry of the list; the step removes no breakpoint
\* of another id from the debugger.
ClearsFirstMatchOnly ==
  [][(/\ lastRpc'.op = "clear_breakpoint"
      /\ lastRpc'.calls # <<>>
      /\ lastRpc'.calls[1].exc = None
      /\ lastRpc'.calls[1].value.t = "list"
      /\ MatchesIn(lastRpc'.calls[1].value.items, lastRpc'.args) # {})
     => LET items == lastRpc'.calls[1].value.items
            at == MatchesIn(items, lastRpc'.args)
            first == items[CHOOSE i \in at : \A j \in at : i <= j]
        IN /\ Len(lastRpc'.calls) >= 2
           /\ lastRpc'.calls[2].request.method = "RPCServer.ClearBreakpoint"
           /\ lastRpc'.calls[2].request.params = <<JInt(first.id)>>
           /\ Cardinality({i \in DOMAIN lastRpc'.calls :
                             lastRpc'.calls[i].request.method = "RPCServer.ClearBreakpoint"}) = 1
           /\ \A i \in DOMAIN debugger.bps :
                debugger.bps[i].id # first.id =>
                  \E j \in DOMAIN debugger'.bps : debugger'.bps[j] = debugger.bps[i]]_vars

\* clear_breakpoint has returned after a list with two entries at file:line:
\* the second of them is what the debugger still holds
ClearedFirstOfTwo ==
  /\ lastRpc.op = "clear_breakpoint"
  /\ lastRpc.exc = None
  /\ Len(lastRpc.calls) = 3
  /\ Len(lastRpc.calls[1].value.items) = 2
  /\ MatchesIn(lastRpc.calls[1].value.items, lastRpc.args) = {1, 2}
  /\ debugger.bps = <<lastRpc.calls[1].value.items[2]>>
  /\ lastRpc.calls[3].value = JList(debugger.bps)

\* C16 as stated: once an operation has failed on a protocol error (a response
\* that is no JSON, or one with another id), no request is made on the
\* transport of the session any more.
NoRequestAfterProtocolError ==
  [][(/\ session.rpc # None
      /\ \E k \in seen.kinds : k.cause = "protocol")
     => /\ session'.rpc = session.rpc
        /\ debugger'.sent = debugger.sent]_vars

\* C19 as stated: an add_breakpoint whose CreateBreakpoint call returned
\* returns without error.
AddOutcomeIsCreateOutcome ==
  (/\ lastRpc.op = "add_breakpoint"
   /\ lastRpc.calls # <<>>
   /\ lastRpc.calls[1].request.method = "RPCServer.CreateBreakpoint"
   /\ lastRpc.calls[1].exc = None)
  => lastRpc.exc = None

\* C20: an operation of a session without transport connects: refused, it
\* raises the connection error, has made no call and leaves the session without
\* transport and socket; accepted, the session has its transport, on which the
\* operation made its calls.  An operation of a session with a transport
\* connects no more.
FailedConnectIsRetried ==
  [][lastRpc' # lastRpc =>
       IF session.rpc # None
         THEN /\ debugger'.accepted = debugger.accepted
              /\ session'.rpc # None
         ELSE IF debugger.up = "listening"
           THEN /\ debugger'.accepted = debugger.accepted + 1
                /\ session'.rpc # None
                /\ sock' # None
                /\ lastRpc'.calls # <<>>
           ELSE /\ lastRpc'.exc = Raise("OSError", JNull)
                /\ lastRpc'.calls = <<>>
                /\ session'.rpc = None
                /\ sock' = None
                /\ debugger'.accepted = debugger.accepted]_vars

\* a refused connect has been followed by an operation that connected, and by
\* one more operation on that connection
ConnectedAfterRefusal ==
  /\ [cause |-> "connection", type |-> "OSError"] \in seen.kinds
  /\ debugger.up = "listening"
  /\ sock # None
  /\ sock.conn = "open"
  /\ session.rpc # None
  /\ session.rpc.id_counter = 2
  /\ debugger.sent = 2
  /\ debugger.accepted = 1
  /\ lastRpc.op = "get_breakpoints"
  /\ lastRpc.exc = None
  /\ lastRpc.calls[1].request.id = 1

====
